---- MODULE Spec2Model ----
(***************************************************************************)
(* A model of tsh (src/tsh.c), the tiny shell with job control: the job    *)
(* list and its helper routines, the read/eval loop of main, eval,         *)
(* parseline, waitfg, the three signal handlers, and the child processes   *)
(* and the kernel's signal delivery they run against.                      *)
(*                                                                         *)
(* A command line is a sequence of characters.  A run of characters that   *)
(* holds no space, quote or newline is written as one element ("ls", "%1") *)
(* so a line is a sequence of such elements; parseline cuts it at the spaces  *)
(* and quotes exactly as the C code does with strchr.                      *)
(***************************************************************************)
EXTENDS Integers, Sequences, FiniteSets, TLC

(***************************************************************************)
(* Bounds of the model.                                                    *)
(***************************************************************************)
\* size of the job list (tsh.c has 16; the model is checked with a small table)
MAXJOBS == 2
\* the pids fork() can hand out are 1..MaxPid
MaxPid == 3

(***************************************************************************)
(* Job states (tsh.c:22-25).                                               *)
(***************************************************************************)
UNDEF == 0
FG == 1
BG == 2
ST == 3

NULL == <<"NULL">>

SIGCHLD == "SIGCHLD"
SIGINT == "SIGINT"
SIGTSTP == "SIGTSTP"
Signals == {SIGCHLD, SIGINT, SIGTSTP}

Slots == 0 .. (MAXJOBS - 1)
Pids == 1 .. MaxPid

(***************************************************************************)
(* The command lines read from stdin.  fgets hands over a line that ends   *)
(* with its newline.  The lines are the empty line, a launch without and   *)
(* with "&", two built-in commands and a launch with a redirection.        *)
(***************************************************************************)
Lines ==
  { <<"\n">>,
    <<"ls", "\n">>,
    <<"ls", " ", "&", "\n">>,
    <<"quit", "\n">>,
    <<"fg", " ", "%1", "\n">>,
    <<"ls", " ", ">", " ", "f", "\n">> }

NoLine == <<>>

VARIABLES
  jobs,      \* the job list: slot -> [pid, jid, state, cmdline]
  pc,        \* where the shell's main flow stands
  cmdline,   \* eval's cmdline, the line under evaluation
  argv,      \* eval's argv after parseline and the redirection scan
  bg,        \* eval's bg, the value parseline returned
  pid,       \* eval's pid (waitfg's argument)
  redir,     \* eval's in_redir, in_file, out_redir, out_file
  sigmask,   \* the shell's blocked signals
  savedmask, \* the mask sigsuspend puts back when it returns
  pending,   \* signals the kernel holds pending for the shell
  proc,      \* pid -> status of the child process
  child,     \* pid -> what the child process holds: its copy of eval's
             \* redirection, its stdin and stdout
  fds,       \* what the shell's own stdin and stdout refer to
  scan,      \* listjobs: its loop index, where it stands in the loop body
             \* and what it has printed
  kills,     \* the signals the shell has sent with kill(), as <<pid, sig>>
  out,       \* the last message printed since the last line was read
  call,      \* the last job-list routine called directly, with its arguments
  ret        \* and what it returned

vars == <<jobs, pc, cmdline, argv, bg, pid, redir, sigmask, savedmask, pending,
          proc, child, fds, scan,
          kills, out, call, ret>>

(***************************************************************************)
(* The job list helper routines.                                           *)
(***************************************************************************)
clearjob == [pid |-> 0, jid |-> 0, state |-> UNDEF, cmdline |-> NoLine]

initjobs == [i \in Slots |-> clearjob]

\* the smallest element of a non-empty set of integers
Min(S) == CHOOSE x \in S : \A y \in S : x <= y

\* freejid handing out the largest free id instead of the smallest
freejid_largest(js) ==
  LET used == { js[i].jid : i \in Slots }
      free == { j \in 1 .. MAXJOBS : j \notin used }
  IN  IF free = {} THEN 0 ELSE CHOOSE x \in free : \A y \in free : x >= y

freejid(js) ==
  LET taken == { js[i].jid : i \in { k \in Slots : js[k].jid # 0 } }
      free == { j \in 1 .. MAXJOBS : j \notin taken }
  IN  IF free = {} THEN 0 ELSE Min(free)

\* addjob leaving the state of the slot it fills as it was
addjob_nostate(js, p, state, line) ==
  LET free == freejid(js)
      empty == { i \in Slots : js[i].pid = 0 }
  IN  IF p < 1 THEN [jobs |-> js, ret |-> 0, said |-> FALSE]
      ELSE IF free = 0 \/ empty = {}
        THEN [jobs |-> js, ret |-> 0, said |-> TRUE]
      ELSE [jobs |-> [js EXCEPT ![Min(empty)] =
                        [pid |-> p, jid |-> free,
                         state |-> js[Min(empty)].state, cmdline |-> line]],
            ret |-> 1, said |-> FALSE]

\* addjob taking the first slot when none is unused
addjob_evict(js, p, state, line) ==
  LET free == freejid(js)
      empty == { i \in Slots : js[i].pid = 0 }
  IN  IF p < 1 THEN [jobs |-> js, ret |-> 0, said |-> FALSE]
      ELSE IF free = 0 \/ empty = {}
        THEN [jobs |-> [js EXCEPT ![0] =
                          [pid |-> p, jid |-> js[0].jid, state |-> state,
                           cmdline |-> line]],
              ret |-> 0, said |-> TRUE]
      ELSE [jobs |-> [js EXCEPT ![Min(empty)] =
                        [pid |-> p, jid |-> free, state |-> state,
                         cmdline |-> line]],
            ret |-> 1, said |-> FALSE]

\* addjob without the test of pid on line 413
addjob_anypid(js, p, state, line) ==
  LET free == freejid(js)
      empty == { i \in Slots : js[i].pid = 0 }
  IN  IF free = 0 \/ empty = {} THEN [jobs |-> js, ret |-> 0, said |-> TRUE]
      ELSE [jobs |-> [js EXCEPT ![Min(empty)] =
                        [pid |-> p, jid |-> free, state |-> state,
                         cmdline |-> line]],
            ret |-> 1, said |-> FALSE]

\* addjob: the list afterwards, the value returned and whether it printed
addjob(js, p, state, line) ==
  IF p < 1 THEN [jobs |-> js, ret |-> 0, said |-> FALSE]
  ELSE LET free == freejid(js)
           empty == { i \in Slots : js[i].pid = 0 }
       IN  IF free = 0 THEN [jobs |-> js, ret |-> 0, said |-> TRUE]
           ELSE IF empty = {} THEN [jobs |-> js, ret |-> 0, said |-> FALSE]
           ELSE [jobs |-> [js EXCEPT ![Min(empty)] =
                             [pid |-> p, jid |-> free, state |-> state,
                              cmdline |-> line]],
                 ret |-> 1, said |-> FALSE]

\* deletejob clearing the slot's pid and leaving its jid
deletejob_keepjid(js, p) ==
  LET hit == { i \in Slots : js[i].pid = p }
  IN  IF p < 1 \/ hit = {} THEN [jobs |-> js, ret |-> 0]
      ELSE [jobs |-> [js EXCEPT ![Min(hit)].pid = 0], ret |-> 1]

deletejob(js, p) ==
  LET hit == { i \in Slots : js[i].pid = p }
  IN  IF p < 1 \/ hit = {} THEN [jobs |-> js, ret |-> 0]
      ELSE [jobs |-> [js EXCEPT ![Min(hit)] = clearjob], ret |-> 1]

fgpid(js) ==
  LET hit == { i \in Slots : js[i].state = FG }
  IN  IF hit = {} THEN 0 ELSE js[Min(hit)].pid

\* getjobpid and getjobjid return a pointer to a slot: the slot's index, or
\* NoJob for the NULL pointer
NoJob == 0 - 1

getjobpid(js, p) ==
  LET hit == { i \in Slots : js[i].pid = p }
  IN  IF p < 1 \/ hit = {} THEN NoJob ELSE Min(hit)

getjobjid(js, j) ==
  LET hit == { i \in Slots : js[i].jid = j }
  IN  IF j < 1 \/ hit = {} THEN NoJob ELSE Min(hit)

pid2jid(js, p) ==
  LET hit == { i \in Slots : js[i].pid = p }
  IN  IF p < 1 \/ hit = {} THEN 0 ELSE js[Min(hit)].jid

\* what listjobs prints for a state (tsh.c:499-512)
StateWord(state) ==
  CASE state = BG -> "Running "
    [] state = FG -> "Foreground "
    [] state = ST -> "Stopped "
    [] OTHER -> "listjobs: Internal error"

\* what listjobs prints for the slots from i on when nothing interrupts it
\* (tsh.c:496-515): jid and pid, the state's word, the command line
RECURSIVE ListFrom(_, _)
ListFrom(js, i) ==
  IF i >= MAXJOBS THEN <<>>
  ELSE IF js[i].pid # 0
    THEN <<js[i].jid, js[i].pid, StateWord(js[i].state), js[i].cmdline>>
           \o ListFrom(js, i + 1)
  ELSE ListFrom(js, i + 1)

listjobs(js) == ListFrom(js, 0)

\* listjobs is not running
NoScan == [i |-> 0, at |-> "", printed |-> <<>>]

(***************************************************************************)
(* parseline (tsh.c:266-303).  It returns argc, the number of arguments.   *)
(***************************************************************************)
\* buf[strlen(buf) - 1] = ' '
ReplaceLast(s) == [s EXCEPT ![Len(s)] = " "]

\* while (*buf && (*buf == ' ')) buf++ : the first position from i on that
\* holds no space (Len(s) + 1 is the terminating NUL)
SkipSpaces(s, i) ==
  LET rest == { k \in i .. Len(s) : s[k] # " " }
  IN  IF rest = {} THEN Len(s) + 1 ELSE Min(rest)

\* strchr(buf, c) from position i: the position of the first c, 0 for NULL
StrChr(s, i, c) ==
  LET hit == { k \in i .. Len(s) : s[k] = c }
  IN  IF hit = {} THEN 0 ELSE Min(hit)

RECURSIVE BuildArgv(_, _, _)
BuildArgv(s, i, acc) ==
  LET quoted == i <= Len(s) /\ s[i] = "'"
      start == IF quoted THEN i + 1 ELSE i
      delim == IF quoted THEN StrChr(s, start, "'") ELSE StrChr(s, start, " ")
  IN  IF delim = 0 THEN acc
      ELSE BuildArgv(s, SkipSpaces(s, delim + 1),
                     Append(acc, SubSeq(s, start, delim - 1)))

parseline(line) ==
  LET buf == ReplaceLast(line)
      args == BuildArgv(buf, SkipSpaces(buf, 1), <<>>)
  IN  [argv |-> args, ret |-> Len(args)]

(***************************************************************************)
(* The routines tsh.c leaves as stubs.                                     *)
(***************************************************************************)
\* builtin_cmd returns 0 for every argv
builtin_cmd(args) == 0

\* do_bgfg returns at once: the job list and the signals sent stay as they are
do_bgfg(args, js, ks) == [jobs |-> js, kills |-> ks]

\* the three handlers return at once
\* a SIGCHLD handler that deletes the job of the first used slot
sigchld_handler_deletes(js, ks) ==
  LET used == { i \in Slots : js[i].pid # 0 }
  IN  IF used = {} THEN [jobs |-> js, kills |-> ks]
      ELSE [jobs |-> deletejob(js, js[Min(used)].pid).jobs, kills |-> ks]

sigchld_handler(js, ks) == [jobs |-> js, kills |-> ks]
sigint_handler(js, ks) == [jobs |-> js, kills |-> ks]
sigtstp_handler(js, ks) == [jobs |-> js, kills |-> ks]

handler(sig, js, ks) ==
  CASE sig = SIGCHLD -> sigchld_handler(js, ks)
    [] sig = SIGINT -> sigint_handler(js, ks)
    [] sig = SIGTSTP -> sigtstp_handler(js, ks)

(***************************************************************************)
(* eval (tsh.c:162-258).                                                   *)
(***************************************************************************)
Max(S) == CHOOSE x \in S : \A y \in S : x >= y

NoRedir == [in_redir |-> 0, in_file |-> NULL, out_redir |-> 0, out_file |-> NULL]
NoOut == [msg |-> "", jid |-> 0, pid |-> 0]

\* the redirection scan (tsh.c:183-193): every "<" and ">" entry of argv
\* becomes NULL and the entry after the last of each kind is the file
RedirScan(args) ==
  LET ins == { i \in 1 .. Len(args) : args[i] = <<"<">> }
      outs == { i \in 1 .. Len(args) : args[i] = <<">">> }
      after(i) == IF i + 1 <= Len(args) THEN args[i + 1] ELSE NULL
  IN  [argv |-> [i \in 1 .. Len(args) |->
                   IF i \in ins \cup outs THEN NULL ELSE args[i]],
       redir |-> [in_redir |-> IF ins = {} THEN 0 ELSE 1,
                  in_file |-> IF ins = {} THEN NULL ELSE after(Max(ins)),
                  out_redir |-> IF outs = {} THEN 0 ELSE 1,
                  out_file |-> IF outs = {} THEN NULL ELSE after(Max(outs))]]

\* the test of line 240 the wrong way round
JobState_inverted(b) == IF b # 0 THEN FG ELSE BG

\* eval registering a background job as stopped
JobState_stopped(b) == IF b = 0 THEN FG ELSE ST

\* the state eval registers the job with (tsh.c:240-250)
JobState(b) == IF b = 0 THEN FG ELSE BG

\* the terminal the shell was started on, and a descriptor that is closed
Tty == <<"tty">>
Closed == <<>>

\* the shell's stdin and stdout: main leaves them as it got them (tsh.c:96
\* redirects stderr only)
ShellFds == [stdin |-> Tty, stdout |-> Tty]

\* no such process, or one that has ended: nothing is open
NoChild == [redir |-> NoRedir, stdin |-> Closed, stdout |-> Closed]

\* the child fork returns in (tsh.c:198-200): a copy of eval's variables and
\* of the shell's descriptors
Forked(r, f) == [redir |-> r, stdin |-> f.stdin, stdout |-> f.stdout]

\* the child after execvp: the program on the descriptors it inherited
Program(in, o) == [redir |-> NoRedir, stdin |-> in, stdout |-> o]

\* eval returns to main's loop: its locals are gone
Return ==
  /\ pc' = "read"
  /\ cmdline' = NoLine
  /\ argv' = <<>>
  /\ bg' = 0
  /\ pid' = 0
  /\ redir' = NoRedir

\* main (tsh.c:130-146): fgets reads a line and eval is called
Read ==
  /\ pc = "read"
  /\ \E line \in Lines : cmdline' = line
  /\ pc' = "eval"
  /\ out' = NoOut
  /\ UNCHANGED <<scan, child, fds, jobs, argv, bg, pid, redir, sigmask,
                 savedmask,
                 pending,
                 proc, kills, call, ret>>

\* main (tsh.c:138-141): end of file on stdin
Eof ==
  /\ pc = "read"
  /\ pc' = "exited"
  /\ UNCHANGED <<scan, child, fds, jobs, cmdline, argv, bg, pid, redir,
                 sigmask,
                 savedmask,
                 pending, proc, kills, out, call, ret>>

\* tsh.c:171-193: parseline, the empty line, builtin_cmd, the redirection scan
EvalParse ==
  /\ pc = "eval"
  /\ LET p == parseline(cmdline)
         r == RedirScan(p.argv)
     IN  IF p.argv = <<>> \/ builtin_cmd(p.argv) # 0
         THEN Return
         ELSE /\ pc' = "block"
              /\ argv' = r.argv
              /\ redir' = r.redir
              /\ bg' = p.ret
              /\ UNCHANGED <<cmdline, pid>>
  /\ UNCHANGED <<scan, child, fds, jobs, sigmask, savedmask, pending, proc,
                 kills,
                 out, call, ret>>

\* a sigprocmask call that blocks nothing
BlockChld_nothing(mask) == mask

\* the mask after sigprocmask(SIG_BLOCK, &mask_one, &prev_one) (tsh.c:196)
BlockChld(mask) == mask \cup {SIGCHLD}

EvalBlock ==
  /\ pc = "block"
  /\ sigmask' = BlockChld(sigmask)
  /\ pc' = "fork"
  /\ UNCHANGED <<scan, child, fds, jobs, cmdline, argv, bg, pid, redir,
                 savedmask,
                 pending,
                 proc, kills, out, call, ret>>

\* fork succeeds (tsh.c:198): the child starts as a copy of the shell
EvalFork ==
  /\ pc = "fork"
  /\ \E p \in Pids :
       /\ proc[p] = "none"
       /\ \A q \in Pids : q < p => proc[q] # "none"
       /\ pid' = p
       /\ proc' = [proc EXCEPT ![p] = "child"]
       /\ child' = [child EXCEPT ![p] = Forked(redir, fds)]
  /\ pc' = "addjob"
  /\ UNCHANGED <<scan, fds, jobs, cmdline, argv, bg, redir, sigmask, savedmask,
                 pending,
                 kills, out, call, ret>>

\* fork fails (tsh.c:198-199): unix_error prints and exits
EvalForkFails ==
  /\ pc = "fork"
  /\ pc' = "exited"
  /\ out' = [msg |-> "fork error", jid |-> 0, pid |-> 0]
  /\ UNCHANGED <<scan, child, fds, jobs, cmdline, argv, bg, pid, redir,
                 sigmask,
                 savedmask,
                 pending, proc, kills, call, ret>>

\* the parent registers the job (tsh.c:240-250)
EvalAddjob ==
  /\ pc = "addjob"
  /\ LET r == addjob(jobs, pid, JobState(bg), cmdline)
     IN  /\ jobs' = r.jobs
         /\ out' = IF r.ret = 0
                      THEN [msg |-> "Failed to add job to the job list",
                            jid |-> 0, pid |-> 0]
                    ELSE IF bg # 0
                      THEN [msg |-> "job", jid |-> pid2jid(r.jobs, pid),
                            pid |-> pid]
                    ELSE out
  /\ pc' = "unblock"
  /\ UNCHANGED <<scan, child, fds, cmdline, argv, bg, pid, redir, sigmask,
                 savedmask, pending,
                 proc, kills, call, ret>>

\* a sigprocmask call that unblocks nothing
UnblockChld_nothing(mask) == mask

\* the mask after sigprocmask(SIG_UNBLOCK, &mask_one, NULL) (tsh.c:251)
UnblockChld(mask) == mask \ {SIGCHLD}

\* sigprocmask(SIG_UNBLOCK, &mask_one, NULL), then waitfg for a foreground
\* job or the return to main (tsh.c:251-258)
EvalUnblock ==
  /\ pc = "unblock"
  /\ sigmask' = UnblockChld(sigmask)
  /\ IF bg = 0
       THEN /\ pc' = "waitfg"
            /\ UNCHANGED <<cmdline, argv, bg, pid, redir>>
       ELSE Return
  /\ UNCHANGED <<scan, child, fds, jobs, savedmask, pending, proc, kills,
                 out, call,
                 ret>>

(***************************************************************************)
(* waitfg (tsh.c:323-333).  SIGCHLD is not blocked while it runs: eval has *)
(* unblocked it on line 251, so a handler can run between the test of the  *)
(* loop and the call of sigsuspend.                                        *)
(***************************************************************************)
\* the test of the while loop (tsh.c:329)
WaitFgTest ==
  /\ pc = "waitfg"
  /\ IF fgpid(jobs) = pid
       THEN /\ pc' = "suspend"
            /\ UNCHANGED <<cmdline, argv, bg, pid, redir>>
       ELSE Return
  /\ UNCHANGED <<scan, child, fds, jobs, sigmask, savedmask, pending, proc,
                 kills,
                 out, call,
                 ret>>

\* the call of sigsuspend with the empty mask of lines 325-327 (tsh.c:330):
\* the shell sleeps until a handler has run
WaitFgSuspend ==
  /\ pc = "suspend"
  /\ pc' = "sigsuspend"
  /\ savedmask' = sigmask
  /\ sigmask' = {}
  /\ UNCHANGED <<scan, child, fds, jobs, cmdline, argv, bg, pid, redir,
                 pending,
                 proc, kills,
                 out, call, ret>>

(***************************************************************************)
(* Signals.  The kernel delivers a pending signal the mask does not block; *)
(* the handler runs to its end, and a sigsuspend the handler interrupted   *)
(* returns with the old mask put back.                                     *)
(***************************************************************************)
Deliver(sig) ==
  /\ pc # "exited"
  /\ sig \in pending
  /\ sig \notin sigmask
  /\ pending' = pending \ {sig}
  /\ LET h == handler(sig, jobs, kills)
     IN  /\ jobs' = h.jobs
         /\ kills' = h.kills
  /\ IF pc = "sigsuspend"
       THEN /\ pc' = "waitfg"
            /\ sigmask' = savedmask
       ELSE UNCHANGED <<pc, sigmask>>
  /\ UNCHANGED <<scan, child, fds, cmdline, argv, bg, pid, redir, savedmask,
                 proc,
                 out, call,
                 ret>>

\* ctrl-c or ctrl-z at the keyboard: the terminal sends the signal to the shell
Keyboard(sig) ==
  /\ pc # "exited"
  /\ sig \in {SIGINT, SIGTSTP}
  /\ sig \notin pending
  /\ pending' = pending \cup {sig}
  /\ UNCHANGED <<scan, child, fds, jobs, pc, cmdline, argv, bg, pid, redir,
                 sigmask, savedmask,
                 proc, kills, out, call, ret>>

(***************************************************************************)
(* The child processes.  A child starts as a copy of the shell inside eval *)
(* (tsh.c:200-238) and either becomes the program or exits; every change   *)
(* of a child's status makes the kernel post SIGCHLD to the shell.         *)
(***************************************************************************)
\* the call of the child branch that fails, if one does
Calls == {"none", "open_in", "dup2_in", "open_out", "dup2_out", "execvp"}

\* the child branch calling exit(0) where the code calls exit(1)
ChildBranch_exit0(c, fails) ==
  IF c.redir.in_redir = 1 /\ fails \in {"open_in", "dup2_in"}
    THEN [exec |-> FALSE, stdin |-> c.stdin, stdout |-> c.stdout, exitarg |-> 0]
  ELSE IF c.redir.out_redir = 1 /\ fails \in {"open_out", "dup2_out"}
    THEN [exec |-> FALSE, stdin |-> c.stdin, stdout |-> c.stdout, exitarg |-> 0]
  ELSE IF fails = "execvp"
    THEN [exec |-> FALSE, stdin |-> c.stdin, stdout |-> c.stdout, exitarg |-> 0]
  ELSE [exec |-> TRUE,
        stdin |-> IF c.redir.in_redir = 1 THEN c.redir.in_file ELSE c.stdin,
        stdout |-> IF c.redir.out_redir = 1 THEN c.redir.out_file ELSE c.stdout,
        exitarg |-> 0]

\* the child branch without the dup2 of line 226
ChildBranch_nodup2(c, fails) ==
  IF c.redir.in_redir = 1 /\ fails \in {"open_in", "dup2_in"}
    THEN [exec |-> FALSE, stdin |-> c.stdin, stdout |-> c.stdout, exitarg |-> 1]
  ELSE IF c.redir.out_redir = 1 /\ fails \in {"open_out", "dup2_out"}
    THEN [exec |-> FALSE, stdin |-> c.stdin, stdout |-> c.stdout, exitarg |-> 1]
  ELSE IF fails = "execvp"
    THEN [exec |-> FALSE, stdin |-> c.stdin, stdout |-> c.stdout, exitarg |-> 1]
  ELSE [exec |-> TRUE,
        stdin |-> IF c.redir.in_redir = 1 THEN c.redir.in_file ELSE c.stdin,
        stdout |-> c.stdout,
        exitarg |-> 0]

\* the child branch of eval (tsh.c:200-238) run by the child c when the call
\* named fails is the one that fails: the input redirection (206-217), the
\* output redirection (220-231), execvp (234-237).  It ends in exit(1) or in
\* the program, with the child's stdin and stdout.
ChildBranch(c, fails) ==
  IF c.redir.in_redir = 1 /\ fails \in {"open_in", "dup2_in"}
    THEN [exec |-> FALSE, stdin |-> c.stdin, stdout |-> c.stdout, exitarg |-> 1]
  ELSE IF c.redir.out_redir = 1 /\ fails \in {"open_out", "dup2_out"}
    THEN [exec |-> FALSE, stdin |-> c.stdin, stdout |-> c.stdout, exitarg |-> 1]
  ELSE IF fails = "execvp"
    THEN [exec |-> FALSE, stdin |-> c.stdin, stdout |-> c.stdout, exitarg |-> 1]
  ELSE [exec |-> TRUE,
        stdin |-> IF c.redir.in_redir = 1 THEN c.redir.in_file ELSE c.stdin,
        stdout |-> IF c.redir.out_redir = 1 THEN c.redir.out_file ELSE c.stdout,
        exitarg |-> 0]

\* execvp succeeds (tsh.c:234): the child is now the program, on the stdin
\* and stdout the redirections left it
ChildExec(p) ==
  /\ pc # "exited"
  /\ proc[p] = "child"
  /\ \E fails \in Calls :
       LET r == ChildBranch(child[p], fails)
       IN  /\ r.exec
           /\ child' = [child EXCEPT ![p] = Program(r.stdin, r.stdout)]
  /\ proc' = [proc EXCEPT ![p] = "running"]
  /\ UNCHANGED <<scan, fds, jobs, pc, cmdline, argv, bg, pid, redir, sigmask,
                 savedmask, pending, kills, out, call, ret>>

\* the child's exit(1) after a failed open, dup2 or execvp (tsh.c:210, 214,
\* 224, 228, 236)
ChildFails(p) ==
  /\ pc # "exited"
  /\ proc[p] = "child"
  /\ \E fails \in Calls : ~ ChildBranch(child[p], fails).exec
  /\ child' = [child EXCEPT ![p] = NoChild]
  /\ proc' = [proc EXCEPT ![p] = "zombie"]
  /\ pending' = pending \cup {SIGCHLD}
  /\ UNCHANGED <<scan, fds, jobs, pc, cmdline, argv, bg, pid, redir, sigmask,
                 savedmask, kills, out, call, ret>>

\* the end of the program
ChildExit(p) ==
  /\ pc # "exited"
  /\ proc[p] \in {"running", "stopped"}
  /\ proc' = [proc EXCEPT ![p] = "zombie"]
  /\ child' = [child EXCEPT ![p] = NoChild]
  /\ pending' = pending \cup {SIGCHLD}
  /\ UNCHANGED <<scan, fds, jobs, pc, cmdline, argv, bg, pid, redir, sigmask,
                 savedmask, kills, out, call, ret>>

\* the program is stopped by a signal.  Nothing in tsh.c sends one and the
\* keyboard's signals go to the shell's own process group, so this happens
\* only where a specification lets another process send the stop signal.
ChildStop(p) ==
  /\ pc # "exited"
  /\ proc[p] = "running"
  /\ proc' = [proc EXCEPT ![p] = "stopped"]
  /\ pending' = pending \cup {SIGCHLD}
  /\ UNCHANGED <<scan, child, fds, jobs, pc, cmdline, argv, bg, pid, redir,
                 sigmask, savedmask,
                 kills, out, call, ret>>

(***************************************************************************)
(* The shell from main on: it reads lines and launches children, and the   *)
(* children run and end.  Nobody types ctrl-c or ctrl-z here; SpecCore has *)
(* the keyboard's signals.                                                 *)
(***************************************************************************)
Init ==
  /\ jobs = initjobs
  /\ pc = "read"
  /\ cmdline = NoLine
  /\ argv = <<>>
  /\ bg = 0
  /\ pid = 0
  /\ redir = NoRedir
  /\ sigmask = {}
  /\ savedmask = {}
  /\ pending = {}
  /\ proc = [p \in Pids |-> "none"]
  /\ child = [p \in Pids |-> NoChild]
  /\ fds = ShellFds
  /\ scan = NoScan
  /\ kills = {}
  /\ out = NoOut
  /\ call = [op |-> "", pid |-> 0, state |-> UNDEF, cmdline |-> NoLine]
  /\ ret = 0

Next ==
  \/ Read
  \/ Eof
  \/ EvalParse
  \/ EvalBlock
  \/ EvalFork
  \/ EvalForkFails
  \/ EvalAddjob
  \/ EvalUnblock
  \/ \E sig \in Signals : Deliver(sig)
  \/ \E p \in Pids : ChildExec(p)
  \/ \E p \in Pids : ChildFails(p)
  \/ \E p \in Pids : ChildExit(p)

Spec == Init /\ [][Next]_vars

(***************************************************************************)
(* The shell with jobs already in the list.  The list is one that addjob   *)
(* builds: a job for pid 1 and possibly one for pid 2, each in any of the  *)
(* three states and at most one of them FG; a FG or BG job's process runs, *)
(* a ST job's process is stopped.  With a FG job the main flow stands in   *)
(* waitfg for it, otherwise it is about to read a line.  Here ctrl-c and    *)
(* ctrl-z are typed and another process may stop a child.                  *)
(***************************************************************************)
LaunchLine(state) ==
  IF state = BG THEN <<"ls", " ", "&", "\n">> ELSE <<"ls", "\n">>

CoreJobs(s1, s2) ==
  LET one == addjob(initjobs, 1, s1, LaunchLine(s1)).jobs
  IN  IF s2 = UNDEF THEN one ELSE addjob(one, 2, s2, LaunchLine(s2)).jobs

CoreProc(state) ==
  IF state = UNDEF THEN "none" ELSE IF state = ST THEN "stopped" ELSE "running"

InitCore ==
  /\ \E s1 \in {FG, BG, ST}, s2 \in {UNDEF, FG, BG, ST} :
       /\ ~ (s1 = FG /\ s2 = FG)
       /\ jobs = CoreJobs(s1, s2)
       /\ proc = [p \in Pids |-> IF p = 1 THEN CoreProc(s1)
                                 ELSE IF p = 2 THEN CoreProc(s2) ELSE "none"]
  /\ child = [p \in Pids |-> IF proc[p] = "none" THEN NoChild
                              ELSE Program(ShellFds.stdin, ShellFds.stdout)]
  /\ fds = ShellFds
  /\ scan = NoScan
  /\ IF fgpid(jobs) # 0
       THEN /\ pc = "waitfg"
            /\ pid = fgpid(jobs)
            /\ cmdline = LaunchLine(FG)
            /\ argv = RedirScan(parseline(LaunchLine(FG)).argv).argv
       ELSE /\ pc = "read"
            /\ pid = 0
            /\ cmdline = NoLine
            /\ argv = <<>>
  /\ bg = 0
  /\ redir = NoRedir
  /\ sigmask = {}
  /\ savedmask = {}
  /\ pending = {}
  /\ kills = {}
  /\ out = NoOut
  /\ call = [op |-> "", pid |-> 0, state |-> UNDEF, cmdline |-> NoLine]
  /\ ret = 0

NextCore ==
  \/ Next
  \/ WaitFgTest
  \/ WaitFgSuspend
  \/ \E sig \in Signals : Keyboard(sig)
  \/ \E p \in Pids : ChildStop(p)

SpecCore == InitCore /\ [][NextCore]_vars

(***************************************************************************)
(* waitfg on its own: the main flow is in waitfg for the FG job and the    *)
(* only signal that arrives is the SIGCHLD of a child that ends or stops.  *)
(* The main flow keeps running and the kernel delivers a pending signal    *)
(* that is not blocked.                                                    *)
(***************************************************************************)
InitWaitFg == InitCore /\ pc = "waitfg"

NextWaitFg ==
  \/ WaitFgTest
  \/ WaitFgSuspend
  \/ Deliver(SIGCHLD)
  \/ \E p \in Pids : ChildExit(p)
  \/ \E p \in Pids : ChildStop(p)

SpecWaitFg ==
  /\ InitWaitFg
  /\ [][NextWaitFg]_vars
  /\ WF_vars(WaitFgTest)
  /\ WF_vars(WaitFgSuspend)
  /\ WF_vars(Deliver(SIGCHLD))

(***************************************************************************)
(* The job list on its own: addjob and deletejob called in any order with  *)
(* any arguments, from the list initjobs leaves.                           *)
(***************************************************************************)
\* the command lines the job list is called with
JobLines == { <<"ls", "\n">>, <<"ls", " ", "&", "\n">> }

NoCall == [op |-> "", pid |-> 0, state |-> UNDEF, cmdline |-> NoLine]

InitJobs ==
  /\ jobs = initjobs
  /\ pc = "joblist"
  /\ cmdline = NoLine
  /\ argv = <<>>
  /\ bg = 0
  /\ pid = 0
  /\ redir = NoRedir
  /\ sigmask = {}
  /\ savedmask = {}
  /\ pending = {}
  /\ proc = [p \in Pids |-> "none"]
  /\ child = [p \in Pids |-> NoChild]
  /\ fds = ShellFds
  /\ scan = NoScan
  /\ kills = {}
  /\ out = NoOut
  /\ call = NoCall
  /\ ret = 0

CallAddjob(p, state, line) ==
  /\ pc = "joblist"
  /\ LET r == addjob(jobs, p, state, line)
     IN  /\ jobs' = r.jobs
         /\ ret' = r.ret
  /\ call' = [op |-> "addjob", pid |-> p, state |-> state, cmdline |-> line]
  /\ UNCHANGED <<scan, child, fds, pc, cmdline, argv, bg, pid, redir, sigmask,
                 savedmask,
                 pending, proc, kills, out>>

CallDeletejob(p) ==
  /\ pc = "joblist"
  /\ LET r == deletejob(jobs, p)
     IN  /\ jobs' = r.jobs
         /\ ret' = r.ret
  /\ call' = [op |-> "deletejob", pid |-> p, state |-> UNDEF,
              cmdline |-> NoLine]
  /\ UNCHANGED <<scan, child, fds, pc, cmdline, argv, bg, pid, redir, sigmask,
                 savedmask,
                 pending, proc, kills, out>>

NextJobs ==
  \/ \E p \in 0 .. MaxPid, state \in {FG, BG, ST}, line \in JobLines :
       CallAddjob(p, state, line)
  \/ \E p \in 0 .. MaxPid : CallDeletejob(p)

SpecJobs == InitJobs /\ [][NextJobs]_vars

(***************************************************************************)
(* listjobs called on a list that addjob has built (tsh.c:496-515), one    *)
(* step for each line of the loop body that reads the list: the test of    *)
(* pid, the printf of jid and pid, the switch on state, the printf of the  *)
(* command line.  listjobs changes no signal mask, so SIGCHLD is delivered *)
(* between any two of them when a child ends or stops.                     *)
(***************************************************************************)
InitList ==
  /\ \E s1 \in {FG, BG, ST}, s2 \in {UNDEF, FG, BG, ST} :
       /\ ~ (s1 = FG /\ s2 = FG)
       /\ jobs = CoreJobs(s1, s2)
       /\ proc = [p \in Pids |-> IF p = 1 THEN CoreProc(s1)
                                 ELSE IF p = 2 THEN CoreProc(s2) ELSE "none"]
  /\ child = [p \in Pids |-> IF proc[p] = "none" THEN NoChild
                              ELSE Program(ShellFds.stdin, ShellFds.stdout)]
  /\ fds = ShellFds
  /\ scan = [i |-> 0, at |-> "test", printed |-> <<>>]
  /\ pc = "listjobs"
  /\ cmdline = NoLine
  /\ argv = <<>>
  /\ bg = 0
  /\ pid = 0
  /\ redir = NoRedir
  /\ sigmask = {}
  /\ savedmask = {}
  /\ pending = {}
  /\ kills = {}
  /\ out = NoOut
  /\ call = NoCall
  /\ ret = 0

ListFrame ==
  UNCHANGED <<jobs, cmdline, argv, bg, pid, redir, sigmask, savedmask,
              pending, proc, child, fds, kills, out, call, ret>>

\* the loop test and the test of pid (tsh.c:496-497)
ListTest ==
  /\ pc = "listjobs"
  /\ scan.at = "test"
  /\ IF scan.i >= MAXJOBS
       THEN pc' = "listed" /\ scan' = [scan EXCEPT !.at = ""]
       ELSE /\ pc' = pc
            /\ scan' = IF jobs[scan.i].pid # 0
                          THEN [scan EXCEPT !.at = "head"]
                        ELSE [scan EXCEPT !.i = scan.i + 1]
  /\ ListFrame

\* printf("[%d] (%d) ", jid, pid) (tsh.c:498)
ListHead ==
  /\ pc = "listjobs"
  /\ scan.at = "head"
  /\ scan' = [scan EXCEPT !.at = "state",
                          !.printed = scan.printed
                            \o <<jobs[scan.i].jid, jobs[scan.i].pid>>]
  /\ pc' = pc
  /\ ListFrame

\* the switch on the state (tsh.c:499-512)
ListState ==
  /\ pc = "listjobs"
  /\ scan.at = "state"
  /\ scan' = [scan EXCEPT !.at = "cmdline",
                          !.printed = Append(scan.printed,
                                             StateWord(jobs[scan.i].state))]
  /\ pc' = pc
  /\ ListFrame

\* printf("%s", cmdline) and the next slot (tsh.c:513, 496)
ListCmd ==
  /\ pc = "listjobs"
  /\ scan.at = "cmdline"
  /\ scan' = [i |-> scan.i + 1, at |-> "test",
              printed |-> Append(scan.printed, jobs[scan.i].cmdline)]
  /\ pc' = pc
  /\ ListFrame

NextList ==
  \/ ListTest
  \/ ListHead
  \/ ListState
  \/ ListCmd
  \/ Deliver(SIGCHLD)
  \/ \E p \in Pids : ChildExit(p)
  \/ \E p \in Pids : ChildStop(p)

SpecList == InitList /\ [][NextList]_vars

(***************************************************************************)
(* C1.  Under every sequence of addjob and deletejob calls no two used     *)
(* slots hold the same jid, and a successful addjob gives the new job the  *)
(* smallest jid in 1..MAXJOBS that no used slot held when it was called.   *)
(***************************************************************************)
UsedSlots(js) == { i \in Slots : js[i].pid # 0 }

JidsUnique(js) ==
  \A i, k \in UsedSlots(js) : i # k => js[i].jid # js[k].jid

SmallestUnusedJid(js, j) ==
  /\ j \in 1 .. MAXJOBS
  /\ \A i \in UsedSlots(js) : js[i].jid # j
  /\ \A m \in 1 .. (j - 1) : \E i \in UsedSlots(js) : js[i].jid = m

\* C1: used slots never share a jid, and each successful addjob assigns the
\* smallest jid no used slot holds
C1_UniqueSmallestJid ==
  /\ [] JidsUnique(jobs)
  /\ [][ \A i \in Slots :
           (jobs[i].pid = 0 /\ jobs'[i].pid # 0)
             => SmallestUnusedJid(jobs, jobs'[i].jid) ]_vars

\* addjob has just given jid 1, freed by a removal, to a new job while
\* another job holds jid 2
C1_Witness ==
  /\ call.op = "addjob"
  /\ ret = 1
  /\ Cardinality({ i \in Slots : jobs[i].pid = call.pid }) = 1
  /\ \E i, k \in Slots :
       /\ jobs[i].pid = call.pid
       /\ jobs[i].jid = 1
       /\ jobs[k].pid \notin {0, call.pid}
       /\ jobs[k].jid = 2

(***************************************************************************)
(* C2.  In every state of the shell at most one slot of the job list has   *)
(* the state FG.                                                           *)
(***************************************************************************)
FgSlots(js) == { i \in Slots : js[i].state = FG }

\* C2: the number of slots in state FG is 0 or 1
C2_AtMostOneFg == Cardinality(FgSlots(jobs)) <= 1

\* the line has no "&" in it
NoAmpersand(line) == \A k \in 1 .. Len(line) : line[k] # "&"

\* two jobs launched without "&" are in the list and eval has returned
C2_Witness ==
  /\ pc = "read"
  /\ \A i \in Slots : jobs[i].pid # 0 /\ NoAmpersand(jobs[i].cmdline)

(***************************************************************************)
(* C3.  From the sigprocmask call before fork until addjob has returned    *)
(* SIGCHLD is blocked, and sigchld_handler never runs while a child has    *)
(* been forked and addjob has not yet been called for it.                  *)
(***************************************************************************)
\* this step is the delivery of sig: only Deliver takes a signal off pending
Delivered(sig) == sig \in pending /\ sig \notin pending'

\* C3: SIGCHLD is blocked from before fork until addjob has returned, and
\* no SIGCHLD is delivered between fork and the call of addjob
C3_ChldBlockedAcrossFork ==
  /\ [] (pc \in {"fork", "addjob", "unblock"} => SIGCHLD \in sigmask)
  /\ [][ Delivered(SIGCHLD) =>
           ~ \E p \in Pids : proc[p] # "none" /\ pc = "addjob" /\ pid = p ]_vars

\* the child is gone before the parent has registered it, and its SIGCHLD
\* is held pending
C3_Witness ==
  /\ pc = "addjob"
  /\ proc[pid] = "zombie"
  /\ SIGCHLD \in pending
  /\ getjobpid(jobs, pid) = NoJob

(***************************************************************************)
(* C4.  eval registers the job as BG and returns without waiting exactly   *)
(* when the line ends with "&"; without a trailing "&" the job is          *)
(* registered as FG and eval calls waitfg.                                 *)
(***************************************************************************)
\* the last character of the line before the newline and any spaces is "&"
EndsWithAmpersand(line) ==
  LET body == { k \in 1 .. (Len(line) - 1) : line[k] # " " }
  IN  body # {} /\ line[Max(body)] = "&"

\* C4: after addjob the new job is BG, and eval will not wait, exactly when
\* the line ends with "&"
C4_BackgroundIffAmpersand ==
  (pc = "unblock" /\ getjobpid(jobs, pid) # NoJob)
    => /\ jobs[getjobpid(jobs, pid)].state =
            (IF EndsWithAmpersand(cmdline) THEN BG ELSE FG)
       /\ (bg = 0) = ~ EndsWithAmpersand(cmdline)

(***************************************************************************)
(* C6.  A job is in the list once, never twice, and once its process has   *)
(* terminated and the SIGCHLD for it has been handled it is in the list no *)
(* more.                                                                   *)
(***************************************************************************)
\* C6: no pid is in two slots, and a terminated process whose SIGCHLD has
\* been handled has no job
C6_TerminatedJobRemoved ==
  \A p \in Pids :
    /\ Cardinality({ i \in Slots : jobs[i].pid = p }) <= 1
    /\ (proc[p] = "zombie" /\ SIGCHLD \notin pending /\ SIGCHLD \notin sigmask)
         => getjobpid(jobs, p) = NoJob

(***************************************************************************)
(* C9.  Evaluating fg <pid> or fg %<jid> for a target that is not in the   *)
(* job list reports the error, leaves every slot as it is and forks no     *)
(* process.                                                                *)
(***************************************************************************)
\* the job id a bg/fg argument of the form %n names
JidArgs == { <<"%1">> }
ArgNumber(arg) == CASE arg = <<"%1">> -> 1

\* the slot a bg/fg argument names, NoJob when no job has that jid
Target(js, arg) ==
  IF arg \in JidArgs THEN getjobjid(js, ArgNumber(arg)) ELSE NoJob

\* the line under evaluation is cmd with an argument
IsBgFg(line, cmd) ==
  /\ line # NoLine
  /\ LET args == parseline(line).argv
     IN  Len(args) >= 2 /\ args[1] = <<cmd>>

NoFork == \A p \in Pids : proc[p] = "none" => proc'[p] = "none"

\* C9: while a fg line whose target is not in the list is evaluated, no
\* step changes the job list or forks
C9_FgMissingTargetNoEffect ==
  [][ (IsBgFg(cmdline, "fg")
         /\ Target(jobs, parseline(cmdline).argv[2]) = NoJob)
       => (jobs' = jobs /\ NoFork) ]_vars

(***************************************************************************)
(* C10.  A line whose first word is quit, jobs, bg or fg is run by the     *)
(* shell itself: no child is forked and no job is added for it, and quit   *)
(* ends the shell at once.                                                 *)
(***************************************************************************)
Builtins == { <<"quit">>, <<"jobs">>, <<"bg">>, <<"fg">> }

IsBuiltin(line) ==
  /\ line # NoLine
  /\ LET args == parseline(line).argv
     IN  Len(args) >= 1 /\ args[1] \in Builtins

\* C10: while a line that starts with a built-in is evaluated no step
\* forks or adds a job, and eval of quit ends the shell
C10_BuiltinsRunInShell ==
  [][ IsBuiltin(cmdline)
       => /\ NoFork
          /\ \A i \in Slots : jobs[i].pid = 0 => jobs'[i].pid = 0
          /\ (pc = "eval" /\ pc' # "eval"
                /\ parseline(cmdline).argv[1] = <<"quit">>)
               => pc' = "exited" ]_vars

(***************************************************************************)
(* C5.  waitfg loses no wakeup: once the foreground child has terminated   *)
(* or stopped, waitfg returns, whenever the SIGCHLD is delivered and with  *)
(* no further signal arriving.                                             *)
(***************************************************************************)
InWaitFg == pc \in {"waitfg", "suspend", "sigsuspend"}

\* C5: the foreground child has terminated or stopped leads to waitfg
\* having returned
C5_WaitfgReturns ==
  (InWaitFg /\ proc[pid] \in {"zombie", "stopped"}) ~> ~ InWaitFg

(***************************************************************************)
(* C7.  SIGTSTP delivered while a job is FG: the stop signal is sent to    *)
(* that job's process group; with no FG job nothing changes.               *)
(***************************************************************************)
\* C7: the delivery of SIGTSTP sends SIGTSTP to the FG job's group, and
\* changes nothing when no job is FG
C7_StopForwarded ==
  [][ Delivered(SIGTSTP)
       => IF fgpid(jobs) # 0
            THEN <<fgpid(jobs), SIGTSTP>> \in kills'
            ELSE jobs' = jobs /\ kills' = kills ]_vars

(***************************************************************************)
(* C8.  bg %<id> on a ST job sends SIGCONT to its group and makes it BG;   *)
(* fg %<id> on a BG or ST job makes it FG, sends SIGCONT if it was ST, and *)
(* the main flow waits for it.                                             *)
(***************************************************************************)
SIGCONT == "SIGCONT"

\* C8: what the evaluation of a bg or fg line does to the job it names
C8_BgFgResume ==
  [][ (pc = "eval" /\ pc' # "eval")
       => LET args == parseline(cmdline).argv
              t == IF Len(args) >= 2 THEN Target(jobs, args[2]) ELSE NoJob
          IN  /\ (IsBgFg(cmdline, "bg") /\ t # NoJob /\ jobs[t].state = ST)
                   => /\ jobs'[t].state = BG
                      /\ <<jobs[t].pid, SIGCONT>> \in kills'
              /\ (IsBgFg(cmdline, "fg") /\ t # NoJob
                     /\ jobs[t].state \in {BG, ST})
                   => /\ jobs'[t].state = FG
                      /\ jobs[t].state = ST
                            => <<jobs[t].pid, SIGCONT>> \in kills'
                      /\ pc' = "waitfg" ]_vars

(***************************************************************************)
(* C11.  addjob fails exactly when pid < 1 or every slot is in use, and    *)
(* then leaves the list as it was; otherwise it succeeds and exactly one   *)
(* unused slot becomes the job (pid, smallest free jid, state, cmdline),   *)
(* every other slot staying as it was.                                     *)
(***************************************************************************)
\* this step is a call of addjob or deletejob (the routine named op)
Called(op) == call'.op = op /\ (call' # call \/ ret' # ret \/ jobs' # jobs)

\* C11: what a call of addjob returns and does to the list
C11_AddjobContract ==
  [][ Called("addjob")
       => IF call'.pid < 1 \/ UsedSlots(jobs) = Slots
            THEN ret' = 0 /\ jobs' = jobs
            ELSE /\ ret' = 1
                 /\ \E i \in Slots \ UsedSlots(jobs) :
                      /\ jobs'[i].pid = call'.pid
                      /\ SmallestUnusedJid(jobs, jobs'[i].jid)
                      /\ jobs'[i].state = call'.state
                      /\ jobs'[i].cmdline = call'.cmdline
                      /\ \A k \in Slots \ {i} : jobs'[k] = jobs[k] ]_vars

\* addjob has just failed on a full list, and the list holds what it held
C11_Witness ==
  /\ call.op = "addjob"
  /\ call.pid >= 1
  /\ ret = 0
  /\ UsedSlots(jobs) = Slots
  /\ \A i \in Slots : jobs[i].pid # call.pid

(***************************************************************************)
(* C12.  A job added by addjob is found by getjobpid(pid) and by           *)
(* getjobjid(jid), with the fields it was added with, until deletejob(pid) *)
(* is called; after a successful deletejob(pid) both find nothing, and     *)
(* deletejob fails when no slot holds the pid.                             *)
(***************************************************************************)
\* the slot is the only one that holds its pid
OnlySlotOfPid(js, i) == \A k \in Slots \ {i} : js[k].pid # js[i].pid

\* every used slot among those in S is what both lookups return
Retrievable(js, S) ==
  \A i \in S : /\ getjobpid(js, js[i].pid) = i
               /\ getjobjid(js, js[i].jid) = i

\* a successful addjob stores its arguments in the slot it fills
AddStoresArguments ==
  Called("addjob") =>
    \A i \in Slots :
      (jobs[i].pid = 0 /\ jobs'[i].pid # 0)
        => /\ jobs'[i].pid = call'.pid
           /\ jobs'[i].state = call'.state
           /\ jobs'[i].cmdline = call'.cmdline

\* a used slot keeps its fields in every step but a deletejob of its pid
KeptUntilDeleted ==
  \A i \in UsedSlots(jobs) :
    (Called("deletejob") /\ call'.pid = jobs[i].pid) \/ jobs'[i] = jobs[i]

\* deletejob fails, changing nothing, when no slot holds the pid
DeleteFailsIfAbsent ==
  (Called("deletejob") /\ \A i \in Slots : jobs[i].pid # call'.pid)
    => ret' = 0 /\ jobs' = jobs

FailedToAdd == "Failed to add job to the job list"

\* C13: the launch on a full list reports the failure, changes no slot,
\* signals nobody and returns to the read loop
C13_FullTableLaunch ==
  [][ /\ (pc = "addjob" /\ pc' # "addjob" /\ UsedSlots(jobs) = Slots)
           => /\ jobs' = jobs
              /\ out'.msg = FailedToAdd
              /\ pc' = "unblock"
              /\ kills' = kills
              /\ proc' = proc
      /\ (pc = "unblock" /\ pc' # "unblock" /\ getjobpid(jobs, pid) = NoJob)
           => /\ pc' = "read"
              /\ jobs' = jobs
              /\ kills' = kills
              /\ proc' = proc ]_vars

\* the shell is back at the read loop after the failure, and a child that
\* no slot holds is running
C13_Witness ==
  /\ pc = "read"
  /\ out.msg = FailedToAdd
  /\ UsedSlots(jobs) = Slots
  /\ kills = {}
  /\ \E p \in Pids : proc[p] = "running" /\ getjobpid(jobs, p) = NoJob

(***************************************************************************)
(* C14.  The SIGINT handler sends the interrupt to the process group of    *)
(* the FG job when there is one and sends nothing otherwise, and leaves    *)
(* the job list as it was.                                                 *)
(***************************************************************************)
\* C14: a delivered SIGINT is passed on to the FG job's group, if any, and
\* the list is not changed
C14_InterruptForwarded ==
  [][ Delivered(SIGINT)
       => /\ jobs' = jobs
          /\ IF fgpid(jobs) # 0
               THEN kills' = kills \cup {<<fgpid(jobs), SIGINT>>}
               ELSE kills' = kills ]_vars

(***************************************************************************)
(* C15.  A launch with "> f": the child's stdout refers to f when the      *)
(* program starts, and the shell's own stdin and stdout are what they were *)
(* before eval.                                                            *)
(***************************************************************************)
LineWithOut == <<"ls", " ", ">", " ", "f", "\n">>

\* C15: the program of a line with "> f" runs with stdout on f, every
\* child that execs has the stdout its redirection names, and the shell's
\* descriptors never change
C15_RedirectionInChildOnly ==
  /\ [] (\A i \in UsedSlots(jobs) :
           (jobs[i].cmdline = LineWithOut /\ proc[jobs[i].pid] = "running")
             => child[jobs[i].pid].stdout = <<"f">>)
  /\ [][ /\ fds' = fds
         /\ \A p \in Pids :
              (proc[p] = "child" /\ proc'[p] = "running")
                => child'[p].stdout = IF child[p].redir.out_redir = 1
                                        THEN child[p].redir.out_file
                                      ELSE fds.stdout ]_vars

\* eval has returned from the launch with "> f": the program runs with its
\* stdout on f and the shell's stdout is the terminal
C15_Witness ==
  /\ pc = "read"
  /\ fds = ShellFds
  /\ \E i \in UsedSlots(jobs) :
       /\ jobs[i].cmdline = LineWithOut
       /\ proc[jobs[i].pid] = "running"
       /\ child[jobs[i].pid].stdout = <<"f">>

(***************************************************************************)
(* C16.  A job is created in state FG or BG, its state changes only along  *)
(* FG->ST, ST->FG, ST->BG, BG->FG, and it becomes ST only from FG and with *)
(* a stop signal sent to it; otherwise it leaves the list.                 *)
(***************************************************************************)
Transitions == { <<FG, ST>>, <<ST, FG>>, <<ST, BG>>, <<BG, FG>> }

\* C16: what a step may do to the state of the job in a slot
C16_StateTransitions ==
  [][ \A i \in Slots :
        /\ (jobs[i].pid = 0 /\ jobs'[i].pid # 0)
             => jobs'[i].state \in {FG, BG}
        /\ (jobs[i].pid # 0 /\ jobs'[i].pid = jobs[i].pid
               /\ jobs'[i].state # jobs[i].state)
             => /\ <<jobs[i].state, jobs'[i].state>> \in Transitions
                /\ jobs'[i].state = ST
                     => <<jobs[i].pid, SIGTSTP>> \in kills'
        /\ (jobs[i].pid # 0 /\ jobs'[i].pid # jobs[i].pid)
             => jobs'[i] = clearjob ]_vars

\* eval has just created a job, in state BG
C16_Witness ==
  /\ pc = "unblock"
  /\ getjobpid(jobs, pid) # NoJob
  /\ jobs[getjobpid(jobs, pid)].state = BG
  /\ out.msg = "job"

(***************************************************************************)
(* C17.  The forked child runs no shell logic: whatever fails in the child *)
(* branch, the child exits with a non-zero status or becomes the program,  *)
(* and the parent's job list and control flow are not touched by it.       *)
(***************************************************************************)
\* what the shell itself holds
ShellState == <<jobs, pc, cmdline, argv, bg, pid, redir, sigmask, savedmask,
                fds, kills, out>>

\* C17: a child leaves the child branch by exit with a non-zero argument or
\* by execvp, and the step changes nothing of the shell
C17_ChildNeverRunsShell ==
  [][ \A p \in Pids :
        (proc[p] = "child" /\ proc'[p] # "child")
          => /\ \E fails \in Calls :
                  LET r == ChildBranch(child[p], fails)
                  IN  IF r.exec THEN proc'[p] = "running"
                      ELSE r.exitarg # 0 /\ proc'[p] = "zombie"
             /\ ShellState' = ShellState ]_vars

\* the child of the line with "> f" has exited from the child branch while
\* the parent was about to register the job
C17_Witness ==
  /\ pc = "addjob"
  /\ redir.out_redir = 1
  /\ proc[pid] = "zombie"
  /\ jobs = initjobs

(***************************************************************************)
(* C20.  Whenever eval has returned to the read loop, SIGCHLD is not       *)
(* blocked in the shell's mask.                                            *)
(***************************************************************************)
\* C20: at the read loop SIGCHLD is unblocked
C20_ChldUnblockedAtReturn == pc = "read" => SIGCHLD \notin sigmask

\* eval has returned from a launch that registered a job
C20_Witness ==
  /\ pc = "read"
  /\ out.msg = "job"
  /\ SIGCHLD \notin sigmask
  /\ UsedSlots(jobs) # {}

SlotUnused(j) == j.pid = 0 /\ j.jid = 0 /\ j.state = UNDEF

SlotUsed(j) ==
  j.pid >= 1 /\ j.jid \in 1 .. MAXJOBS /\ j.state \in {FG, BG, ST}

\* the indexes freejid writes taken[] at (tsh.c:400-403)
TakenIndexes(js) == { js[i].jid : i \in { k \in Slots : js[k].jid # 0 } }

\* C19: no slot is half filled, freejid stays inside taken[0..MAXJOBS] and
\* listjobs prints no internal error
C19_SlotsWellFormed ==
  /\ \A i \in Slots : SlotUnused(jobs[i]) \/ SlotUsed(jobs[i])
  /\ TakenIndexes(jobs) \subseteq 0 .. MAXJOBS
  /\ \A k \in 1 .. Len(listjobs(jobs)) :
       k % 4 = 3 => listjobs(jobs)[k] # StateWord(UNDEF)

\* a slot that was used and deleted is unused again beside a used one
C19_Witness ==
  /\ call.op = "deletejob"
  /\ ret = 1
  /\ \E i, k \in Slots : SlotUnused(jobs[i]) /\ SlotUsed(jobs[k])
  /\ Len(listjobs(jobs)) = 4

====
